---- MODULE Spec2Model ----
(***************************************************************************)
(* Model of the two teaching notebooks held in                             *)
(* src/Notebooks/McKinney/mckinney-10.ipynb (McKinney chapter 10, lines    *)
(* 1-874, and Lewinson chapter 1, lines 876-1394).                         *)
(*                                                                         *)
(* Part 1 (Spec): a kernel session that runs the code cells of one         *)
(* notebook, the namespace the cells bind names in, and the cached HTTP    *)
(* session every download goes through.                                    *)
(* Part 2 (SpecTable, SpecSelect, SpecTop, SpecApply): the table           *)
(* operations the code cells apply to df (groupby, mean, unstack, column   *)
(* selection, top, apply), on every small table.                           *)
(* Part 3 (SpecSpy): the cells that build spy and its monthly aggregates   *)
(* spy_m, on every small price history.                                    *)
(***************************************************************************)
EXTENDS Integers, Sequences, FiniteSets, TLC

VARIABLES
    nb,       \* the notebook the kernel runs: "mckinney" or "lewinson"
    pc,       \* index of the next code cell in document order
    cur,      \* index of the code cell executed last (0: none yet)
    ec,       \* the kernel's execution count
    status,   \* "ok", or "error" once a cell has raised
    ns,       \* kernel namespace: name -> [cell, at, frame] of its binding
    used,     \* the <<name, binding cell>> pairs the last cell read
    out,      \* what the last cell left in its output: "ok", the error it
              \* raised, or the download failure yfinance printed
    now,      \* wall clock, in half days
    cache,    \* on-disk response cache: request -> [stored, created, expires]
    src,      \* where the last download's response came from
    age,      \* at the last download: time since its response was stored
    calls,    \* remote API calls made by the last executed cell
    runs,     \* kernels started so far
    reruns,   \* cells re-executed in this kernel
    df,       \* the table under the table operations
    op,       \* the table operation applied last
    res       \* its result

vars == <<nb, pc, cur, ec, status, ns, used, out, now, cache, src, age, calls,
          runs, reruns, df, op, res>>

nbVars == <<nb, pc, cur, ec, status, ns, used, out, now, cache, src, age, calls,
            runs, reruns>>
tblVars == <<df, op, res>>

None == "None"

(***************************************************************************)
(* Bounds of the model.                                                    *)
(***************************************************************************)
MaxTime == 3
MaxRuns == 2
MaxReruns == 1
MaxRows == 2
MaxVal == 1
MaxN == 2
MaxApplyRows == 3
MaxMonths == 3

\* .query('count >= 15'): the fewest daily returns a month of spy_m may have.
MinCount == 15

\* One day in clock units (half days): what expire_after='1D' is meant to say.
Day == 2

(***************************************************************************)
(* The code cells.  A cell is a sequence of statements; a statement reads  *)
(* names (listed in the order Python evaluates them), may send a download  *)
(* through a session, and binds names.                                     *)
(***************************************************************************)
S(r, w) == [reads |-> r, writes |-> w, dl |-> None, via |-> None]
D(r, w, tickers, sess) == [reads |-> r, writes |-> w, dl |-> tickers, via |-> sess]
Cell(l, ss) == [line |-> l, stmts |-> ss]

CellsMcKinney == <<
    Cell(38,  << S(<<>>, {"np"}), S(<<>>, {"pd"}), S(<<>>, {"plt"}) >>),
    Cell(49,  << S(<<"plt">>, {}), S(<<"pd">>, {}) >>),
    Cell(60,  << S(<<>>, {"requests_cache"}), S(<<"requests_cache">>, {"session"}),
                 S(<<>>, {"yf"}), S(<<>>, {"pdr"}) >>),
    Cell(101, << S(<<"np">>, {}), S(<<"pd", "np">>, {"df"}) >>),
    Cell(121, << S(<<"df">>, {}) >>),
    Cell(130, << S(<<"df">>, {}) >>),
    Cell(154, << S(<<"df">>, {"grouped"}) >>),
    Cell(163, << S(<<"grouped">>, {}) >>),
    Cell(175, << S(<<"grouped">>, {}) >>),
    Cell(191, << S(<<"df">>, {}) >>),
    Cell(207, << S(<<"df">>, {}) >>),
    Cell(227, << S(<<"df">>, {"means"}), S(<<"means">>, {}) >>),
    Cell(248, << S(<<"means">>, {}) >>),
    Cell(268, << S(<<"df">>, {}) >>),
    Cell(277, << S(<<"df">>, {}) >>),
    Cell(309, << S(<<"df">>, {"name", "group"}), S(<<"name", "group">>, {}) >>),
    Cell(323, << S(<<"df">>, {"k1", "k2", "group"}), S(<<"k1", "k2", "group">>, {}) >>),
    Cell(371, << S(<<"df">>, {}) >>),
    Cell(391, << S(<<"np">>, {}), S(<<"pd", "np">>, {"people"}) >>),
    Cell(408, << S(<<"people">>, {}) >>),
    Cell(427, << S(<<>>, {"key_list"}), S(<<"people", "key_list">>, {}) >>),
    Cell(437, << S(<<>>, {"d"}), S(<<"people", "d">>, {}) >>),
    Cell(460, << S(<<"pd">>, {"columns"}), S(<<"pd", "np", "columns">>, {"hier_df"}) >>),
    Cell(475, << S(<<"hier_df">>, {}) >>),
    Cell(486, << S(<<"hier_df">>, {}) >>),
    Cell(497, << S(<<"hier_df">>, {}) >>),
    Cell(527, << S(<<"df">>, {}) >>),
    Cell(547, << S(<<>>, {"peak_to_peak"}) >>),
    Cell(557, << S(<<"df", "peak_to_peak">>, {}) >>),
    Cell(576, << S(<<"df">>, {}) >>),
    Cell(613, << S(<<>>, {"top"}) >>),
    Cell(623, << S(<<"df", "top">>, {}) >>),
    Cell(632, << S(<<"df", "top">>, {}) >>),
    Cell(655, << D(<<"yf", "session">>, {"ind"}, "^GSPC ^DJI ^IXIC ^FTSE ^N225 ^HSI",
                   "session") >>),
    Cell(675, << S(<<"ind">>, {}) >>),
    Cell(695, << S(<<"ind", "pd">>, {}) >>),
    Cell(723, << S(<<"np">>, {}), S(<<"pd", "np">>, {"df"}) >>),
    Cell(753, << S(<<"np">>, {}), S(<<"pd", "np">>, {"people"}) >>),
    Cell(792, << D(<<"yf", "session">>, {"faang"}, "META AAPL AMZN NFLX GOOG", "session"),
                 S(<<"faang">>, {}), S(<<"faang", "pd">>, {}) >>)
>>

CellsLewinson == <<
    Cell(925,  << S(<<>>, {"plt"}), S(<<>>, {"np"}), S(<<>>, {"pd"}) >>),
    Cell(936,  << S(<<"plt">>, {}), S(<<"pd">>, {}) >>),
    Cell(947,  << S(<<>>, {"scs"}), S(<<>>, {"yf"}), S(<<>>, {"requests_cache"}),
                  S(<<"requests_cache">>, {"session"}) >>),
    Cell(974,  << >>),
    Cell(983,  << D(<<"yf", "session">>, {"spy"}, "SPY", "session") >>),
    Cell(992,  << S(<<"spy">>, {}) >>),
    Cell(1024, << S(<<"spy", "np">>, {}) >>),
    Cell(1043, << S(<<"spy">>, {}) >>),
    Cell(1052, << S(<<"spy">>, {}), S(<<"spy">>, {}) >>),
    Cell(1081, << S(<<"spy">>, {}), S(<<"np", "spy">>, {"xs"}),
                  S(<<"scs", "xs", "spy">>, {"ys"}), S(<<"plt", "xs", "ys">>, {}),
                  S(<<"plt">>, {}) >>),
    Cell(1119, << S(<<"spy">>, {"spy_m"}) >>),
    Cell(1144, << S(<<"spy_m">>, {"axes"}), S(<<"axes">>, {}), S(<<"plt">>, {}) >>),
    Cell(1174, << S(<<>>, {"N"}), S(<<"pd", "N", "spy">>, {"spy_lags"}),
                  S(<<"spy_lags">>, {"corrs"}), S(<<"np", "corrs", "spy_lags">>, {"serrs"}),
                  S(<<"plt", "corrs", "N", "serrs">>, {}), S(<<"plt">>, {}) >>),
    Cell(1211, << S(<<>>, {"N"}), S(<<"pd", "N", "spy">>, {"spy_lags"}),
                  S(<<"spy_lags">>, {"corrs"}), S(<<"np", "corrs", "spy_lags">>, {"serrs"}),
                  S(<<"plt", "corrs", "N", "serrs">>, {}), S(<<"plt">>, {}) >>),
    Cell(1242, << S(<<"spy">>, {"spy_m"}) >>),
    Cell(1260, << S(<<"spy_m">>, {}), S(<<"plt">>, {}) >>)
>>

Notebooks == {"mckinney", "lewinson"}

\* (mutant) the fourth and fifth code cells change places in the document.
Cells_swapped(n) ==
    LET cs == IF n = "mckinney" THEN CellsMcKinney ELSE CellsLewinson
    IN  [i \in 1..Len(cs) |-> IF i = 4 THEN cs[5] ELSE IF i = 5 THEN cs[4] ELSE cs[i]]

Cells(n) == IF n = "mckinney" THEN CellsMcKinney ELSE CellsLewinson

Names == {"np", "pd", "plt", "requests_cache", "session", "yf", "pdr", "scs",
          "df", "grouped", "means", "name", "group", "k1", "k2", "people",
          "key_list", "d", "columns", "hier_df", "peak_to_peak", "top", "ind",
          "faang", "spy", "xs", "ys", "spy_m", "axes", "N", "spy_lags", "corrs",
          "serrs"}

\* The names bound to tables.
Tables == {"df", "people", "hier_df", "ind", "faang", "spy", "spy_m", "spy_lags"}

Requests == {"^GSPC ^DJI ^IXIC ^FTSE ^N225 ^HSI", "META AAPL AMZN NFLX GOOG", "SPY"}

\* frame is what yf.download returned to the statement that bound the name
\* ("rows" or "empty"), None for a statement that downloads nothing.
Unbound == [cell |-> 0, at |-> 0, frame |-> None]

(***************************************************************************)
(* requests_cache.CachedSession(expire_after='1D').                        *)
(***************************************************************************)
\* The argument the notebooks pass: a str.
expire_after == [type |-> "str", val |-> "1D"]

\* A datetime that is None (the clock never reads it).
NoTime == 0 - 1

\* A moment before the kernel started (the clock does not measure how long
\* before).
Past == 0 - 2

\* The strings parse_http_date can read are the RFC 5322 dates, here one of
\* them with the clock value it names.  '1D' is no date: the parse fails and
\* the function returns None.
HttpDates == {<<"Wed, 21 Oct 2015 07:28:00 GMT", Past>>}
parse_http_date(s) ==
    IF \E p \in HttpDates : p[1] = s
    THEN (CHOOSE p \in HttpDates : p[1] = s)[2]
    ELSE NoTime

\* A request the cache holds no response for.
Absent == [stored |-> FALSE, created |-> NoTime, expires |-> NoTime]

\* get_expiration_datetime: the absolute expiry of a response stored at t.
get_expiration_datetime(e, t) ==
    CASE e.type = "None" -> NoTime
      [] e.type = "int" /\ e.val = -1 -> NoTime
      [] e.type = "int" /\ e.val = 0 -> t
      [] e.type = "str" -> parse_http_date(e.val)
      [] e.type = "datetime" -> e.val
      [] e.type = "timedelta" -> t + e.val
      [] OTHER -> t + e.val

\* CachedResponse.is_expired
is_expired(entry, t) == entry.expires # NoTime /\ t >= entry.expires

RemoteOutcomes == {"ok", "network_error", "missing_data"}

\* A request sent with no session: yfinance asks the remote API directly.
Direct(req, ch, t, oc) ==
    [err |-> IF oc = "ok" THEN "none" ELSE oc, cache |-> ch, src |-> "remote",
     age |-> IF ch[req].stored THEN t - ch[req].created ELSE NoTime, calls |-> 1]

\* session.get(request) at time t; oc is what the remote API does if it is asked.
\* Only a 200 response is stored.
Send(req, ch, t, oc) ==
    IF ch[req].stored /\ ~is_expired(ch[req], t)
    THEN [err |-> "none", cache |-> ch, src |-> "cache", age |-> t - ch[req].created,
          calls |-> 0]
    ELSE [err |-> IF oc = "ok" THEN "none" ELSE oc,
          cache |-> IF oc = "ok"
                    THEN [ch EXCEPT ![req] =
                            [stored |-> TRUE, created |-> t,
                             expires |-> get_expiration_datetime(expire_after, t)]]
                    ELSE ch,
          src |-> "remote",
          age |-> IF ch[req].stored THEN t - ch[req].created ELSE NoTime,
          calls |-> 1]

(***************************************************************************)
(* yf.download(tickers=..., session=session).  The library sends the       *)
(* request inside try/except Exception (Ticker.history): a request that    *)
(* fails, or an answer that holds no price data, raises nothing in the     *)
(* cell.  The library prints the failure and returns a frame with no rows. *)
(***************************************************************************)
download(req, via, ch, t, oc) ==
    LET r == IF via = "session" THEN Send(req, ch, t, oc) ELSE Direct(req, ch, t, oc)
    IN  [frame |-> IF r.err = "none" THEN "rows" ELSE "empty",
         printed |-> r.err,
         cache |-> r.cache, src |-> r.src, age |-> r.age, calls |-> r.calls]

(***************************************************************************)
(* Executing a cell: its statements run in order; a statement evaluates    *)
(* what it reads (NameError on an unbound name), performs its download,    *)
(* and then binds its targets.  An exception ends the cell.                *)
(***************************************************************************)
\* The position of the first name of rs that is unbound in m; 0 if all are bound.
FirstUnbound(rs, m) ==
    IF \A i \in 1..Len(rs) : m[rs[i]].cell # 0 THEN 0
    ELSE CHOOSE i \in 1..Len(rs) :
           /\ m[rs[i]].cell = 0
           /\ \A j \in 1..(i - 1) : m[rs[j]].cell # 0

\* The first n names of rs, each with the cell that bound it.
ReadPairs(rs, m, n) == {<<rs[j], m[rs[j]].cell>> : j \in 1..n}

ExecStmt(s, k, c, n, t, oc) ==
    IF FirstUnbound(s.reads, k.ns) # 0
    THEN [k EXCEPT !.err = "NameError",
                   !.used = k.used \cup ReadPairs(s.reads, k.ns,
                                                  FirstUnbound(s.reads, k.ns) - 1)]
    ELSE LET rd == k.used \cup ReadPairs(s.reads, k.ns, Len(s.reads))
             bind(m, fr) == [x \in Names |->
                               IF x \in s.writes
                               THEN [cell |-> c, at |-> n, frame |-> fr]
                               ELSE m[x]]
         IN  IF s.dl = None
             THEN [k EXCEPT !.ns = bind(k.ns, None), !.used = rd]
             ELSE LET r == download(s.dl, s.via, k.cache, t, oc)
                  IN  [ns |-> bind(k.ns, r.frame),
                       used |-> rd,
                       cache |-> r.cache,
                       src |-> r.src,
                       age |-> r.age,
                       calls |-> k.calls + r.calls,
                       printed |-> IF r.printed = "none" THEN k.printed ELSE r.printed,
                       err |-> k.err]

RECURSIVE RunStmts(_, _, _, _, _, _, _)
RunStmts(ss, i, k, c, n, t, oc) ==
    IF i > Len(ss) \/ k.err # "none"
    THEN k
    ELSE RunStmts(ss, i + 1, ExecStmt(ss[i], k, c, n, t, oc), c, n, t, oc)

\* (mutant) a table lives only while the cell that constructs it executes.
Execute_ephemeral(c, oc) ==
    LET k0 == [ns |-> ns, used |-> {}, cache |-> cache, src |-> src, age |-> age,
               calls |-> 0, printed |-> "none", err |-> "none"]
        k == RunStmts(Cells(nb)[c].stmts, 1, k0, c, ec + 1, now, oc)
    IN  /\ ec' = ec + 1
        /\ cur' = c
        /\ ns' = [x \in Names |-> IF x \in Tables /\ k.ns[x].cell # c
                                  THEN Unbound ELSE k.ns[x]]
        /\ used' = k.used
        /\ cache' = k.cache
        /\ src' = k.src
        /\ age' = k.age
        /\ calls' = k.calls
        /\ out' = IF k.err # "none" THEN k.err
                  ELSE IF k.printed # "none" THEN k.printed ELSE "ok"
        /\ status' = IF k.err = "none" THEN "ok" ELSE "error"
        /\ pc' = IF k.err = "none" THEN c + 1 ELSE c

\* The kernel executes cell c of the open notebook (execution count ec + 1).
Execute(c, oc) ==
    LET k0 == [ns |-> ns, used |-> {}, cache |-> cache, src |-> src, age |-> age,
               calls |-> 0, printed |-> "none", err |-> "none"]
        k == RunStmts(Cells(nb)[c].stmts, 1, k0, c, ec + 1, now, oc)
    IN  /\ ec' = ec + 1
        /\ cur' = c
        /\ ns' = k.ns
        /\ used' = k.used
        /\ cache' = k.cache
        /\ src' = k.src
        /\ age' = k.age
        /\ calls' = k.calls
        /\ out' = IF k.err # "none" THEN k.err
                  ELSE IF k.printed # "none" THEN k.printed ELSE "ok"
        /\ status' = IF k.err = "none" THEN "ok" ELSE "error"
        /\ pc' = IF k.err = "none" THEN c + 1 ELSE c

HasDownload(c) == \E i \in 1..Len(Cells(nb)[c].stmts) : Cells(nb)[c].stmts[i].dl # None

\* Run All: the next cell in document order; the run stops at a cell that raised.
RunCell ==
    /\ status = "ok"
    /\ pc <= Len(Cells(nb))
    /\ \E oc \in RemoteOutcomes :
         /\ (oc # "ok" => HasDownload(pc))
         /\ Execute(pc, oc)
    /\ UNCHANGED <<nb, now, runs, reruns, df, op, res>>

\* The user executes the download cell that ran last once more.
Reexecute ==
    /\ cur >= 1
    /\ HasDownload(cur)
    /\ reruns < MaxReruns
    /\ reruns' = reruns + 1
    /\ \E oc \in RemoteOutcomes : Execute(cur, oc)
    /\ UNCHANGED <<nb, now, runs, df, op, res>>

\* Time passes.
Tick ==
    /\ now < MaxTime
    /\ now' = now + 1
    /\ UNCHANGED <<nb, pc, cur, ec, status, ns, used, out, cache, src, age, calls,
                   runs, reruns, df, op, res>>

\* A new kernel opens a notebook: the namespace is empty, the on-disk cache stays.
Restart ==
    /\ runs < MaxRuns
    /\ runs' = runs + 1
    /\ nb' \in Notebooks
    /\ pc' = 1 /\ cur' = 0 /\ ec' = 0 /\ status' = "ok" /\ out' = "ok"
    /\ ns' = [x \in Names |-> Unbound]
    /\ used' = {}
    /\ calls' = 0
    /\ reruns' = 0
    /\ UNCHANGED <<now, cache, src, age, df, op, res>>

(***************************************************************************)
(* Part 2: tables and the operations the cells apply to them.              *)
(* A table is a sequence of rows; idx is the row label the DataFrame       *)
(* constructor assigns (0, 1, ...).  Data values are small integers, and   *)
(* an aggregate is the exact fraction <<numerator, denominator>>.          *)
(***************************************************************************)
Key1s == <<"a", "b">>          \* the values of key1, in sorted order
Key2s == <<"one", "two">>      \* the values of key2, in sorted order
KeyVals(col) == IF col = "key1" THEN Key1s ELSE Key2s
DataCols == <<"data1", "data2">>
Vals == 0..MaxVal

Range(f) == {f[i] : i \in DOMAIN f}
Min2(a, b) == IF a < b THEN a ELSE b
Max2(a, b) == IF a > b THEN a ELSE b

RECURSIVE Flatten(_)
Flatten(ss) == IF Len(ss) = 0 THEN << >> ELSE Head(ss) \o Flatten(Tail(ss))

RowData == [key1 : Range(Key1s), key2 : Range(Key2s), data1 : Vals, data2 : Vals]

\* pd.DataFrame({...}): the rows in the order given, labelled 0..n-1.
DataFrame(rows) ==
    [i \in 1..Len(rows) |->
        [idx |-> i - 1, key1 |-> rows[i].key1, key2 |-> rows[i].key2,
         data1 |-> rows[i].data1, data2 |-> rows[i].data2]]

\* A missing value.
NaN == <<0, 0>>

RECURSIVE GCD(_, _)
GCD(a, b) == IF b = 0 THEN a ELSE GCD(b, a % b)
Frac(n, d) == IF d = 0 THEN NaN ELSE LET g == GCD(n, d) IN <<n \div g, d \div g>>

RECURSIVE Sum(_)
Sum(vs) == IF Len(vs) = 0 THEN 0 ELSE Head(vs) + Sum(Tail(vs))
RECURSIVE MinOf(_)
MinOf(vs) == IF Len(vs) = 1 THEN vs[1] ELSE Min2(Head(vs), MinOf(Tail(vs)))
RECURSIVE MaxOf(_)
MaxOf(vs) == IF Len(vs) = 1 THEN vs[1] ELSE Max2(Head(vs), MaxOf(Tail(vs)))

\* Series.mean(): the sum over the count; the mean of nothing is missing.
mean(vs) == Frac(Sum(vs), Len(vs))

\* The optimized aggregations of the chapter's Table 10-1.
Aggs == {"mean", "sum", "count", "min", "max"}
Agg(f, vs) ==
    CASE f = "mean" -> mean(vs)
      [] f = "sum" -> <<Sum(vs), 1>>
      [] f = "count" -> <<Len(vs), 1>>
      [] f = "min" -> IF Len(vs) = 0 THEN NaN ELSE <<MinOf(vs), 1>>
      [] f = "max" -> IF Len(vs) = 0 THEN NaN ELSE <<MaxOf(vs), 1>>

\* df[col]: a Series with the table's row labels.
Column(t, col) ==
    [name |-> col,
     index |-> [i \in 1..Len(t) |-> t[i].idx],
     values |-> [i \in 1..Len(t) |-> t[i][col]]]

\* The positions 1..n that satisfy a mask.
Where(mask) == SelectSeq([i \in 1..Len(mask) |-> i], LAMBDA i : mask[i])

\* df.loc[df['key1'] == k, col].mean(): a boolean mask picks the rows.
LocMean(t, k, col) ==
    LET mask == [i \in 1..Len(t) |-> Column(t, "key1").values[i] = k]
        pos == Where(mask)
    IN  mean([j \in 1..Len(pos) |-> Column(t, col).values[pos[j]]])

\* The key of a row under the grouping columns by: a scalar for one column, a
\* tuple for several.
KeyOf(r, by) == IF Len(by) = 1 THEN r[by[1]] ELSE [i \in 1..Len(by) |-> r[by[i]]]

\* Every key the grouping columns can give, in sorted order.
AllKeys(by) ==
    IF Len(by) = 1
    THEN KeyVals(by[1])
    ELSE Flatten([i \in 1..Len(KeyVals(by[1])) |->
                    [j \in 1..Len(KeyVals(by[2])) |->
                        <<KeyVals(by[1])[i], KeyVals(by[2])[j]>>]])

\* The distinct keys present in ks, sorted (groupby's sort=True).
SortedUnique(ks, by) == SelectSeq(AllKeys(by), LAMBDA k : \E i \in 1..Len(ks) : ks[i] = k)

\* (mutant) a group also takes the rows of every smaller key.
GetGroup_upTo(t, by, k) ==
    SelectSeq(t, LAMBDA r :
        \E i, j \in 1..Len(AllKeys(by)) :
            AllKeys(by)[i] = KeyOf(r, by) /\ AllKeys(by)[j] = k /\ i <= j)

\* The rows of the group with key k, in the table's order.
GetGroup(t, by, k) == SelectSeq(t, LAMBDA r : KeyOf(r, by) = k)

\* The distinct elements of a sequence, in order of first appearance.
RECURSIVE Uniq(_)
Uniq(ks) ==
    IF Len(ks) = 0 THEN << >>
    ELSE LET init == Uniq(SubSeq(ks, 1, Len(ks) - 1))
         IN  IF \E i \in 1..Len(init) : init[i] = ks[Len(ks)]
             THEN init ELSE Append(init, ks[Len(ks)])

\* (mutant) the groups come in order of first appearance (sort=False).
groupby_unsorted(t, by) ==
    LET keys == Uniq([i \in 1..Len(t) |-> KeyOf(t[i], by)])
    IN  [i \in 1..Len(keys) |-> <<keys[i], GetGroup(t, by, keys[i])>>]

\* df.groupby(by): what iterating over the grouping yields, one
\* <<key, rows of the group>> pair per key, in sorted key order.
groupby(t, by) ==
    LET keys == SortedUnique([i \in 1..Len(t) |-> KeyOf(t[i], by)], by)
    IN  [i \in 1..Len(keys) |-> <<keys[i], GetGroup(t, by, keys[i])>>]

\* df.groupby(by)[col]: column subsetting of the grouped table.
GroupBySelect(g, by, col) ==
    [by |-> by,
     keys |-> [i \in 1..Len(g) |-> g[i][1]],
     groups |-> [i \in 1..Len(g) |-> Column(g[i][2], col)]]

\* The position of label l in a Series' index.
PosOf(ser, l) == CHOOSE p \in 1..Len(ser.index) : ser.index[p] = l

\* ser.groupby(keys): each value goes to the group of the key that the key
\* Series hold at its own row label.
SeriesGroupBy(ser, keys) ==
    LET by == [i \in 1..Len(keys) |-> keys[i].name]
        keyAt(l) == IF Len(keys) = 1
                    THEN keys[1].values[PosOf(keys[1], l)]
                    ELSE [i \in 1..Len(keys) |-> keys[i].values[PosOf(keys[i], l)]]
        kseq == [p \in 1..Len(ser.index) |-> keyAt(ser.index[p])]
        ks == SortedUnique(kseq, by)
        group(k) ==
            LET m == Where([p \in 1..Len(kseq) |-> kseq[p] = k])
            IN  [name |-> ser.name,
                 index |-> [j \in 1..Len(m) |-> ser.index[m[j]]],
                 values |-> [j \in 1..Len(m) |-> ser.values[m[j]]]]
    IN  [by |-> by,
         keys |-> ks,
         groups |-> [i \in 1..Len(ks) |-> group(ks[i])]]

\* (mutant) the aggregate of each group is taken over the whole column.
SeriesAgg_all(g, f) ==
    [name |-> IF Len(g.groups) = 0 THEN "" ELSE g.groups[1].name,
     names |-> g.by,
     index |-> g.keys,
     values |-> [i \in 1..Len(g.keys) |->
                   Agg(f, Flatten([j \in 1..Len(g.groups) |-> g.groups[j].values]))]]

\* SeriesGroupBy.agg(f), .mean(), ...: one entry per group, indexed by its key.
SeriesAgg(g, f) ==
    [name |-> IF Len(g.groups) = 0 THEN "" ELSE g.groups[1].name,
     names |-> g.by,
     index |-> g.keys,
     values |-> [i \in 1..Len(g.keys) |-> Agg(f, g.groups[i].values)]]

\* DataFrameGroupBy[[cols]].agg(f), .mean(): one row per group, one column per
\* selected column.
FrameAgg(g, by, cols, f) ==
    [names |-> by,
     index |-> [i \in 1..Len(g) |-> g[i][1]],
     columns |-> cols,
     values |-> [i \in 1..Len(g) |->
                   [j \in 1..Len(cols) |-> Agg(f, Column(g[i][2], cols[j]).values)]]]

\* df[[cols]].groupby(keys).agg(f): the sub-table's columns are grouped by the
\* key Series, aligned on the row label.
SubFrameGroupByAgg(t, cols, keys, f) ==
    LET g == [j \in 1..Len(cols) |-> SeriesGroupBy(Column(t, cols[j]), keys)]
    IN  [names |-> [i \in 1..Len(keys) |-> keys[i].name],
         index |-> g[1].keys,
         columns |-> cols,
         values |-> [i \in 1..Len(g[1].keys) |->
                       [j \in 1..Len(cols) |-> Agg(f, g[j].groups[i].values)]]]

\* (mutant) unstack pivots the first index level instead of the last.
UnstackSeries_first(s) ==
    LET rows == SortedUnique([p \in 1..Len(s.index) |-> s.index[p][2]], <<s.names[2]>>)
        cols == SortedUnique([p \in 1..Len(s.index) |-> s.index[p][1]], <<s.names[1]>>)
        cell(r, c) == IF \E p \in 1..Len(s.index) : s.index[p] = <<c, r>>
                      THEN s.values[CHOOSE p \in 1..Len(s.index) : s.index[p] = <<c, r>>]
                      ELSE NaN
    IN  [names |-> <<s.names[2]>>, colnames |-> <<s.names[1]>>,
         index |-> rows, columns |-> cols,
         values |-> [i \in 1..Len(rows) |-> [j \in 1..Len(cols) |-> cell(rows[i], cols[j])]]]

\* Series.unstack(): the last index level becomes the columns; a combination
\* the index does not hold is a missing cell.  The Series' name is not kept.
UnstackSeries(s) ==
    LET rows == SortedUnique([p \in 1..Len(s.index) |-> s.index[p][1]], <<s.names[1]>>)
        cols == SortedUnique([p \in 1..Len(s.index) |-> s.index[p][2]], <<s.names[2]>>)
        cell(r, c) == IF \E p \in 1..Len(s.index) : s.index[p] = <<r, c>>
                      THEN s.values[CHOOSE p \in 1..Len(s.index) : s.index[p] = <<r, c>>]
                      ELSE NaN
    IN  [names |-> <<s.names[1]>>, colnames |-> <<s.names[2]>>,
         index |-> rows, columns |-> cols,
         values |-> [i \in 1..Len(rows) |-> [j \in 1..Len(cols) |-> cell(rows[i], cols[j])]]]

\* DataFrame.sort_values(col): ascending; rows with equal values keep the
\* table's order (the sort of short arrays is an insertion sort).
RECURSIVE sort_values(_, _)
sort_values(t, col) ==
    IF Len(t) = 0 THEN << >>
    ELSE LET rest == sort_values(SubSeq(t, 1, Len(t) - 1), col)
             r == t[Len(t)]
             le == SelectSeq(rest, LAMBDA x : x[col] <= r[col])
             gt == SelectSeq(rest, LAMBDA x : x[col] > r[col])
         IN  le \o <<r>> \o gt

\* DataFrame.head(n): the first n rows; all but the last -n for a negative n.
head(t, n) ==
    IF n >= 0 THEN SubSeq(t, 1, Min2(n, Len(t)))
    ELSE SubSeq(t, 1, Max2(0, Len(t) + n))

\* (mutant) top sorts in descending order.
top_desc(x, col, n) ==
    LET asc == sort_values(x, col)
    IN  head([i \in 1..Len(asc) |-> asc[Len(asc) + 1 - i]], n)

\* def top(x, col, n=1): return x.sort_values(col).head(n)
top(x, col, n) == head(sort_values(x, col), n)

\* (mutant) apply hands the whole table, not the group, to the function.
GroupByApplyTop_whole(t, by, col, n) ==
    LET g == groupby(t, <<by>>)
        outs == [i \in 1..Len(g) |-> top(t, col, n)]
        like == \A i \in 1..Len(g) : outs[i] = g[i][2]
    IN  IF like
        THEN [names |-> <<None>>,
              calls |-> [i \in 1..Len(g) |-> g[i][1]],
              index |-> [p \in 1..Len(t) |-> t[p].idx],
              rows |-> t]
        ELSE [names |-> <<by, None>>,
              calls |-> [i \in 1..Len(g) |-> g[i][1]],
              index |-> Flatten([i \in 1..Len(g) |->
                           [j \in 1..Len(outs[i]) |-> <<g[i][1], outs[i][j].idx>>]]),
              rows |-> Flatten(outs)]

\* df.groupby(by).apply(top, col=col, n=n), pandas 1.x: top is called on each
\* group's rows, in sorted key order.  If every output is indexed like its
\* group (same row labels in the same order), the outputs are concatenated and
\* reindexed to the table's own index: the table's labels in the table's
\* order, no key level.  Otherwise the outputs are concatenated in key order
\* and each output row is labelled with its group's key and its own label.
GroupByApplyTop(t, by, col, n) ==
    LET g == groupby(t, <<by>>)
        outs == [i \in 1..Len(g) |-> top(g[i][2], col, n)]
        like == \A i \in 1..Len(g) : outs[i] = g[i][2]
    IN  IF like
        THEN [names |-> <<None>>,
              calls |-> [i \in 1..Len(g) |-> g[i][1]],
              index |-> [p \in 1..Len(t) |-> t[p].idx],
              rows |-> t]
        ELSE [names |-> <<by, None>>,
              calls |-> [i \in 1..Len(g) |-> g[i][1]],
              index |-> Flatten([i \in 1..Len(g) |->
                           [j \in 1..Len(outs[i]) |-> <<g[i][1], outs[i][j].idx>>]]),
              rows |-> Flatten(outs)]

(***************************************************************************)
(* spy and spy_m: the monthly aggregates of the daily returns.             *)
(***************************************************************************)
\* The numbers of trading days a month of the input may hold.
DayCounts == {0, 14, 15, 16}

\* The adjusted closing prices the input may hold.
Prices == {v + 1 : v \in Vals}

\* Exact arithmetic on fractions <<numerator, denominator>>.
RAdd(a, b) == Frac(a[1] * b[2] + b[1] * a[2], a[2] * b[2])
RMul(a, b) == Frac(a[1] * b[1], a[2] * b[2])
RECURSIVE RSum(_)
RSum(vs) == IF Len(vs) = 0 THEN <<0, 1>> ELSE RAdd(Head(vs), RSum(Tail(vs)))

\* A fraction times an integer; a missing value stays missing.
Mul(fr, c) == IF fr = NaN THEN NaN ELSE Frac(fr[1] * c, fr[2])

\* spy = yf.download(tickers='SPY', ...): one row per trading day, in date
\* order, labelled with its month.  Month i holds ms[i].n days, each closing
\* at the price ms[i].p.
Spy(ms) ==
    Flatten([i \in 1..Len(ms) |->
               [j \in 1..ms[i].n |-> ("month" :> i) @@ ("Adj Close" :> ms[i].p)]])

\* Whether the table has the column c.
HasColumn(t, c) == Len(t) > 0 /\ c \in DOMAIN t[1]

\* t[c] = vals: the column is added, or replaced if the table has it.
AssignColumn(t, c, vals) == [d \in 1..Len(t) |-> (c :> vals[d]) @@ t[d]]

\* Series.pct_change(): the change from the row before, over the value of the
\* row before; the first row has none.
pct_change(t, c) ==
    [d \in 1..Len(t) |-> IF d = 1 THEN NaN
                         ELSE Frac(t[d][c] - t[d - 1][c], t[d - 1][c])]

\* .pipe(np.log1p), left unevaluated; the logarithm of a missing value is
\* missing.
log1p(vals) == [d \in 1..Len(vals) |-> [log1p |-> vals[d]]]

\* The returns of month m that are not missing.
MonthReturns(t, m) ==
    LET in == SelectSeq(t, LAMBDA d : d["month"] = m /\ d["Return"] # NaN)
    IN  [j \in 1..Len(in) |-> in[j]["Return"]]

\* Series.mean() of values that are fractions; the mean of nothing is missing.
SeriesMean(vs) ==
    IF Len(vs) = 0 THEN NaN ELSE Frac(RSum(vs)[1], RSum(vs)[2] * Len(vs))

\* Series.std() (ddof=1), kept exact as the square root of a fraction: the
\* root of a missing value for fewer than two values.
std(vs) ==
    [sqrt |-> IF Len(vs) < 2 THEN NaN
              ELSE LET n == Len(vs)
                       s == RSum(vs)
                       q == RSum([j \in 1..n |-> RMul(vs[j], vs[j])])
                       num == RAdd(RMul(<<n, 1>>, q), RMul(<<0 - 1, 1>>, RMul(s, s)))
                   IN  Frac(num[1], num[2] * n * (n - 1))]

\* .resample(rule='M', kind='period')['Return'].agg(['mean', 'std', 'count']):
\* one row for every calendar month from the first day's to the last day's,
\* the months without a day included.
ResampleAgg(t) ==
    IF Len(t) = 0 THEN << >>
    ELSE LET lo == t[1]["month"]
             hi == t[Len(t)]["month"]
         IN  [q \in 1..(hi - lo + 1) |->
                LET vs == MonthReturns(t, lo + q - 1)
                IN  [month |-> lo + q - 1, mean |-> SeriesMean(vs), std |-> std(vs),
                     count |-> Len(vs)]]

\* .query('count >= 15'): the rows that pass, in order.
QueryCount(fr) == SelectSeq(fr, LAMBDA x : x.count >= MinCount)

\* .drop(columns=['count']).mul(100)
DropCountMul(fr, c) ==
    [p \in 1..Len(fr) |->
        [month |-> fr[p].month,
         mean |-> Mul(fr[p].mean, c),
         std |-> [sqrt |-> Mul(fr[p].std.sqrt, c * c)]]]

\* Series.shift(k) without freq: the values move down k rows, whatever the
\* rows' labels; the first k rows are missing.
shift(col, k) ==
    [p \in 1..Len(col) |-> IF p <= k THEN NaN ELSE col[p - k]]

\* .assign(mean_lag1 = lambda x: x['mean'].shift(1))
AssignMeanLag1(fr) ==
    LET lag == shift([p \in 1..Len(fr) |-> fr[p].mean], 1)
    IN  [p \in 1..Len(fr) |->
           [month |-> fr[p].month, mean |-> fr[p].mean, std |-> fr[p].std,
            mean_lag1 |-> lag[p]]]

\* spy_m of the volatility-clustering plot:
\* spy.resample(...)['Return'].agg(...).query(...).drop(...).mul(100)
SpyMVol(t) == DropCountMul(QueryCount(ResampleAgg(t)), 100)

\* spy_m of the leverage-effect plot: the same chain, then
\* .assign(mean_lag1 = ...)
SpyM(t) == AssignMeanLag1(DropCountMul(QueryCount(ResampleAgg(t)), 100))

EmptyTable == << >>

InitNb ==
    /\ nb \in Notebooks
    /\ pc = 1 /\ cur = 0 /\ ec = 0 /\ status = "ok" /\ out = "ok"
    /\ ns = [x \in Names |-> Unbound]
    /\ used = {}
    /\ now = 0
    /\ cache = [r \in Requests |-> Absent]
    /\ src = "none" /\ age = NoTime /\ calls = 0
    /\ runs = 1 /\ reruns = 0

Init ==
    /\ InitNb
    /\ df = EmptyTable /\ op = <<"none">> /\ res = None

Next == RunCell \/ Reexecute \/ Tick \/ Restart

Spec == Init /\ [][Next]_vars

(***************************************************************************)
(* The cells that apply an operation to df, on any small table.            *)
(***************************************************************************)
NoOp == <<"none">>
Built == <<"DataFrame">>

\* df = pd.DataFrame({'key1': ..., 'key2': ..., 'data1': ..., 'data2': ...})
DataFrameCell ==
    /\ op = NoOp
    /\ \E n \in 1..MaxRows : \E f \in [1..n -> RowData] : df' = DataFrame(f)
    /\ op' = Built
    /\ res' = None
    /\ UNCHANGED nbVars

\* df.loc[df['key1'] == k, 'data1'].mean()
LocMeanCell ==
    /\ op = Built
    /\ \E k \in Range(Key1s) :
         /\ op' = <<"loc_mean", k>>
         /\ res' = LocMean(df, k, "data1")
    /\ UNCHANGED <<df, nbVars>>

\* df['data1'].groupby(df['key1']).mean()
GroupedMeanCell ==
    /\ op = Built
    /\ op' = <<"grouped_mean">>
    /\ res' = SeriesAgg(SeriesGroupBy(Column(df, "data1"), <<Column(df, "key1")>>), "mean")
    /\ UNCHANGED <<df, nbVars>>

\* df['data1'].groupby([df['key1'], df['key2']]).mean()
Means(t) ==
    SeriesAgg(SeriesGroupBy(Column(t, "data1"), <<Column(t, "key1"), Column(t, "key2")>>),
              "mean")

\* means = df['data1'].groupby([df['key1'], df['key2']]).mean()
MeansCell ==
    /\ op = Built
    /\ op' = <<"means">>
    /\ res' = Means(df)
    /\ UNCHANGED <<df, nbVars>>

\* means.unstack()
UnstackCell ==
    /\ op = <<"means">>
    /\ op' = <<"unstack">>
    /\ res' = UnstackSeries(res)
    /\ UNCHANGED <<df, nbVars>>

\* for name, group in df.groupby('key1'); for (k1, k2), group in df.groupby([...])
IterateCell ==
    /\ op = Built
    /\ \E by \in {<<"key1">>, <<"key1", "key2">>} :
         /\ op' = <<"iterate", by>>
         /\ res' = groupby(df, by)
    /\ UNCHANGED <<df, nbVars>>

\* df.groupby('key1')['data1'].agg(f)
SelectCell ==
    /\ op = Built
    /\ \E col \in {"data1"}, f \in Aggs :
         /\ op' = <<"select", col, f>>
         /\ res' = SeriesAgg(GroupBySelect(groupby(df, <<"key1">>), <<"key1">>, col), f)
    /\ UNCHANGED <<df, nbVars>>

\* df.groupby('key1')[['data2']].agg(f); df.groupby(['key1', 'key2'])[['data2']].mean()
SelectFrameCell ==
    /\ op = Built
    /\ \E by \in {<<"key1">>, <<"key1", "key2">>}, f \in Aggs :
         /\ (Len(by) = 2 => f = "mean")
         /\ op' = <<"select_frame", by, f>>
         /\ res' = FrameAgg(groupby(df, by), by, <<"data2">>, f)
    /\ UNCHANGED <<df, nbVars>>

\* top(df, col, n)
TopCell ==
    /\ op = Built
    /\ \E col \in Range(DataCols), n \in 0..MaxN :
         /\ op' = <<"top", col, n>>
         /\ res' = top(df, col, n)
    /\ UNCHANGED <<df, nbVars>>

\* top(df, col): n omitted, so n = 1
TopDefaultCell ==
    /\ op = Built
    /\ \E col \in Range(DataCols) :
         /\ op' = <<"top", col, 1, "default">>
         /\ res' = top(df, col, 1)
    /\ UNCHANGED <<df, nbVars>>

\* The notebook's key2 column, row by row: one, two, one, two, ...
Key2At(i) == Key2s[((i - 1) % 2) + 1]

\* df = pd.DataFrame({...}) with any key1, data1 and data2 and the notebook's
\* key2, which the apply cells do not read.
DataFrameApplyCell ==
    /\ op = NoOp
    /\ \E n \in 1..MaxApplyRows :
         \E f \in [1..n -> [key1 : Range(Key1s), data1 : Vals, data2 : Vals]] :
            df' = DataFrame([i \in 1..n |->
                     [key1 |-> f[i].key1, key2 |-> Key2At(i),
                      data1 |-> f[i].data1, data2 |-> f[i].data2]])
    /\ op' = Built
    /\ res' = None
    /\ UNCHANGED nbVars

\* df.groupby('key1').apply(top, col='data1', n=2), and the same with col='data2'
ApplyTopCell ==
    /\ op = Built
    /\ \E col \in Range(DataCols) :
         /\ op' = <<"apply_top", col>>
         /\ res' = GroupByApplyTop(df, "key1", col, 2)
    /\ UNCHANGED <<df, nbVars>>

\* spy = yf.download(tickers='SPY', session=session): any history of up to
\* MaxMonths months that holds at least one day.
SpyCell ==
    /\ op = NoOp
    /\ \E k \in 1..MaxMonths : \E ms \in [1..k -> [n : DayCounts, p : Prices]] :
         /\ \E i \in 1..k : ms[i].n > 0
         /\ df' = Spy(ms)
    /\ op' = <<"spy">>
    /\ res' = None
    /\ UNCHANGED nbVars

\* spy['Return'] = spy['Adj Close'].pct_change()
ReturnCell ==
    /\ op = <<"spy">>
    /\ df' = AssignColumn(df, "Return", pct_change(df, "Adj Close"))
    /\ op' = <<"Return">>
    /\ UNCHANGED <<res, nbVars>>

\* spy['log Return'] = spy['Return'].pipe(np.log1p)
LogReturnCell ==
    /\ op = <<"Return">>
    /\ df' = AssignColumn(df, "log Return",
                          log1p([d \in 1..Len(df) |-> df[d]["Return"]]))
    /\ op' = <<"log Return">>
    /\ UNCHANGED <<res, nbVars>>

\* spy_m = (spy.resample(rule='M', kind='period')['Return'] ... .mul(100)); a
\* table without the Return column raises KeyError and spy_m is not bound.
SpyMVolCell ==
    /\ op[1] \in {"spy", "Return", "log Return"}
    /\ IF HasColumn(df, "Return")
       THEN op' = <<"spy_m_vol", "ok">> /\ res' = SpyMVol(df)
       ELSE op' = <<"spy_m_vol", "KeyError">> /\ res' = res
    /\ UNCHANGED <<df, nbVars>>

\* spy_m = (spy.resample(rule='M', kind='period')['Return'] ...
\*            .assign(mean_lag1 = ...))
SpyMCell ==
    /\ op[1] \in {"spy", "Return", "log Return"}
    /\ IF HasColumn(df, "Return")
       THEN op' = <<"spy_m", "ok">> /\ res' = SpyM(df)
       ELSE op' = <<"spy_m", "KeyError">> /\ res' = res
    /\ UNCHANGED <<df, nbVars>>

\* A fresh kernel on the second notebook, no table built yet.
InitSpy ==
    /\ InitNb
    /\ nb = "lewinson"
    /\ df = EmptyTable
    /\ op = NoOp
    /\ res = None

InitTable ==
    /\ InitNb
    /\ nb = "mckinney"
    /\ df = EmptyTable
    /\ op = NoOp
    /\ res = None

NextTable ==
    \/ DataFrameCell
    \/ LocMeanCell \/ GroupedMeanCell \/ MeansCell \/ UnstackCell
    \/ IterateCell

\* The grouping and reshaping cells, on every small table.
SpecTable == InitTable /\ [][NextTable]_vars

NextSelect == DataFrameCell \/ SelectCell \/ SelectFrameCell

\* The cells that select columns of a grouped table, on every small table.
SpecSelect == InitTable /\ [][NextSelect]_vars

NextTop == DataFrameCell \/ TopCell \/ TopDefaultCell

\* The cells that call top, on every small table.
SpecTop == InitTable /\ [][NextTop]_vars

NextApply == DataFrameApplyCell \/ ApplyTopCell

\* The cells that apply top to each key1 group, on every small table.
SpecApply == InitTable /\ [][NextApply]_vars

NextSpy == SpyCell \/ ReturnCell \/ LogReturnCell \/ SpyMVolCell \/ SpyMCell

\* The monthly aggregates of the daily returns, on every small history.
SpecSpy == InitSpy /\ [][NextSpy]_vars

(***************************************************************************)
(* Claims about grouping, aggregation and reshaping (SpecTable,            *)
(* SpecSelect).                                                            *)
(***************************************************************************)
\* C3: iterating over df.groupby(by) yields one <<key, rows>> pair per distinct
\* key present in the table, each key once; the groups are pairwise disjoint,
\* every row of the table is in exactly one group, once, and under its own key.
C3_GroupsPartitionRows ==
    op[1] = "iterate" =>
        LET by == op[2]
            n == Len(res)
            labels(i) == {res[i][2][j].idx : j \in 1..Len(res[i][2])}
        IN  /\ \A i, j \in 1..n : i # j => res[i][1] # res[j][1]
            /\ {res[i][1] : i \in 1..n} = {KeyOf(df[r], by) : r \in 1..Len(df)}
            /\ \A i, j \in 1..n : i # j => labels(i) \cap labels(j) = {}
            /\ \A r \in 1..Len(df) :
                 Cardinality({i \in 1..n : df[r] \in Range(res[i][2])}) = 1
            /\ \A i \in 1..n :
                 /\ Len(res[i][2]) = Cardinality(labels(i))
                 /\ \A j \in 1..Len(res[i][2]) :
                      /\ res[i][2][j] \in Range(df)
                      /\ KeyOf(res[i][2][j], by) = res[i][1]

\* C3 witness: grouping a two-row table by key1 and key2 gave two groups.
C3_Witness ==
    /\ op = <<"iterate", <<"key1", "key2">>>>
    /\ Len(df) = 2 /\ Len(res) = 2
    /\ df[1].key1 = df[2].key1

\* C4: df['data1'].groupby(df['key1']).mean() has one entry per distinct key1
\* value present and no others, and the entry for k is
\* df.loc[df['key1'] == k, 'data1'].mean().
C4_GroupMeanIsLocMean ==
    op = <<"grouped_mean">> =>
        /\ Range(res.index) = {df[r].key1 : r \in 1..Len(df)}
        /\ Len(res.index) = Cardinality(Range(res.index))
        /\ Len(res.values) = Len(res.index)
        /\ \A i \in 1..Len(res.index) :
             res.values[i] = LocMean(df, res.index[i], "data1")

\* C4 witness: two key1 groups with different means.
C4_Witness ==
    /\ op = <<"grouped_mean">>
    /\ Len(res.index) = 2
    /\ res.values[1] # res.values[2]

\* C5: df.groupby('key1')['data1'] forms the groups of
\* df['data1'].groupby(df['key1']), and every aggregation gives the same result
\* on both; likewise df.groupby(by)[['data2']] and df[['data2']].groupby(by).
C5_SelectIsSugar ==
    /\ op[1] = "select" =>
         LET plain == SeriesGroupBy(Column(df, op[2]), <<Column(df, "key1")>>)
         IN  /\ GroupBySelect(groupby(df, <<"key1">>), <<"key1">>, op[2]) = plain
             /\ res = SeriesAgg(plain, op[3])
    /\ op[1] = "select_frame" =>
         res = SubFrameGroupByAgg(df, <<"data2">>,
                                  [i \in 1..Len(op[2]) |-> Column(df, op[2][i])], op[3])

\* C5 witness: an aggregation of the selected column over two groups, the
\* larger key first in the table.
C5_Witness ==
    /\ op = <<"select", "data1", "max">>
    /\ Len(df) = 2 /\ df[1].key1 = "b" /\ df[2].key1 = "a"
    /\ df[1].data1 # df[2].data1

\* The cells of a table that are not missing, read row by row: each with its
\* <<row label, column label>> pair.  This is what stacking the table keeps.
StackedCells(fr) ==
    Flatten([i \in 1..Len(fr.index) |->
        LET keep == Where([j \in 1..Len(fr.columns) |-> fr.values[i][j] # NaN])
        IN  [q \in 1..Len(keep) |->
               <<<<fr.index[i], fr.columns[keep[q]]>>, fr.values[i][keep[q]]>>]])

\* C7: means.unstack() puts the key1 values in the rows and the key2 values in
\* the columns, its cell at (k1, k2) is means[(k1, k2)] where the combination
\* is present and missing where it is not, and stacking it again gives back
\* means: its cells that are not missing, read row by row under the level
\* names (key1, key2), are the entries of means, labels and values, in order.
C7_UnstackLastLevel ==
    op = <<"unstack">> =>
        LET m == Means(df)
            present(r, c) == \E x \in 1..Len(df) : df[x].key1 = r /\ df[x].key2 = c
        IN  /\ res.index = SortedUnique([x \in 1..Len(df) |-> df[x].key1], <<"key1">>)
            /\ res.columns = SortedUnique([x \in 1..Len(df) |-> df[x].key2], <<"key2">>)
            /\ \A i \in 1..Len(res.index), j \in 1..Len(res.columns) :
                 IF present(res.index[i], res.columns[j])
                 THEN \E p \in 1..Len(m.index) :
                        /\ m.index[p] = <<res.index[i], res.columns[j]>>
                        /\ res.values[i][j] = m.values[p]
                        /\ res.values[i][j] # NaN
                 ELSE res.values[i][j] = NaN
            /\ StackedCells(res) = [p \in 1..Len(m.index) |-> <<m.index[p], m.values[p]>>]
            /\ res.names \o res.colnames = m.names

\* C7 witness: the means of two combinations that share no key, unstacked: two
\* of the four cells are missing.
C7_Witness ==
    /\ op = <<"unstack">>
    /\ Len(df) = 2 /\ df[1].key1 = "b" /\ df[1].key2 = "one"
    /\ df[2].key1 = "a" /\ df[2].key2 = "two"
    /\ Len(res.index) = 2 /\ Len(res.columns) = 2
    /\ res.values[1][1] = NaN /\ res.values[2][2] = NaN

(***************************************************************************)
(* Claims about top (SpecTop).                                             *)
(***************************************************************************)
ColMax(t, col) == MaxOf([i \in 1..Len(t) |-> t[i][col]])
ColMin(t, col) == MinOf([i \in 1..Len(t) |-> t[i][col]])
LeftOut(t, r) == {x \in Range(t) : \A i \in 1..Len(r) : r[i].idx # x.idx}

\* What C10 and its amendment share: top(x, col, n) returns min(n, rows) rows of
\* x, in ascending order of col, none larger than a row it leaves out; with n
\* omitted it returns the single row with the smallest value.
TopReturnsSmallest ==
    LET col == op[2]
        n == op[3]
    IN  /\ res = SubSeq(sort_values(df, col), 1, Min2(n, Len(df)))
        /\ Len(res) = Min2(n, Len(df))
        /\ \A i \in 1..Len(res) : res[i] \in Range(df)
        /\ \A i, j \in 1..Len(res) : i < j => /\ res[i][col] <= res[j][col]
                                             /\ res[i].idx # res[j].idx
        /\ \A x \in LeftOut(df, res) : \A i \in 1..Len(res) : res[i][col] <= x[col]
        /\ Len(op) = 4 => Len(res) = 1 /\ res[1][col] = ColMin(df, col)

\* C10 (as stated): ... and it never returns a row with the largest value of
\* col unless x has at most n rows.
C10_NeverLargest ==
    op[1] = "top" =>
        /\ TopReturnsSmallest
        /\ Len(df) > op[3] =>
             \A i \in 1..Len(res) : res[i][op[2]] # ColMax(df, op[2])

\* C10 (amended): ... and it returns a row with the largest value of col only
\* when x has at most n rows or every row it leaves out holds that value too.
C10_TopReturnsSmallest ==
    op[1] = "top" =>
        /\ TopReturnsSmallest
        /\ (Len(df) > op[3] /\ \E i \in 1..Len(res) : res[i][op[2]] = ColMax(df, op[2]))
             => \A x \in LeftOut(df, res) : x[op[2]] = ColMax(df, op[2])

\* C10 witness: of two rows, top returned the second, which holds the smaller
\* value.
C10_Witness ==
    /\ op = <<"top", "data1", 1>>
    /\ Len(df) = 2 /\ df[1].data1 > df[2].data1
    /\ Len(res) = 1 /\ res[1].idx = 1

(***************************************************************************)
(* Claims about groupby.apply (SpecApply).                                 *)
(***************************************************************************)
\* C11: df.groupby('key1').apply(top, col=c, n=2) calls top once for each key1
\* group; for every key1 value the result holds exactly min(2, size of that
\* group) rows of that key1 value, each of them a row of that group in the
\* original table with its values unchanged, no row twice, and no row under a
\* key1 label other than its own (where the result's index has a key1 level,
\* a row's key1 label is its own key1; every row keeps its own row label).
C11_ApplyTopPerGroup ==
    op[1] = "apply_top" =>
        LET n == Len(res.index)
            size(k) == Cardinality({r \in 1..Len(df) : df[r].key1 = k})
        IN  /\ Len(res.rows) = n
            /\ \A k \in Range(Key1s) :
                 /\ Cardinality({p \in 1..n : res.rows[p].key1 = k}) = Min2(2, size(k))
                 /\ Cardinality({i \in 1..Len(res.calls) : res.calls[i] = k})
                      = IF size(k) > 0 THEN 1 ELSE 0
            /\ \A p \in 1..n :
                 /\ res.rows[p] \in Range(df)
                 /\ IF Len(res.names) = 2
                    THEN res.index[p] = <<res.rows[p].key1, res.rows[p].idx>>
                    ELSE res.index[p] = res.rows[p].idx
            /\ \A p, q \in 1..n : p # q => res.rows[p].idx # res.rows[q].idx

\* C11 witness: a group of three rows gave its two smallest, a group of none
\* gave nothing, and the row left out is the first of the table.
C11_Witness ==
    /\ op = <<"apply_top", "data1">>
    /\ Len(df) = 3 /\ \A r \in 1..3 : df[r].key1 = "b"
    /\ df[1].data1 > df[2].data1 /\ df[1].data1 > df[3].data1
    /\ Len(res.rows) = 2 /\ res.index[1] = <<"b", 1>>

(***************************************************************************)
(* Claims about spy_m (SpecSpy).                                           *)
(***************************************************************************)
\* C12: mean_lag1 of every month m of spy_m is the mean daily return (in
\* percent) of the month one calendar month before m, also when that month was
\* removed by the count >= 15 filter; it is missing only when the history holds
\* no month before m.
C12_LagIsPreviousCalendarMonth ==
    op = <<"spy_m", "ok">> =>
        \A p \in 1..Len(res) :
            res[p].mean_lag1 =
                IF res[p].month - 1 >= df[1]["month"]
                THEN Mul(SeriesMean(MonthReturns(df, res[p].month - 1)), 100)
                ELSE NaN

(***************************************************************************)
(* Claims about the kernel session and the cached downloads (Spec).        *)
(***************************************************************************)
DownloadErrors == {"network_error", "missing_data"}
WritesOf(c) == UNION {Cells(nb)[c].stmts[i].writes : i \in 1..Len(Cells(nb)[c].stmts)}

\* C1 (as stated): a download whose response was stored less than one day ago
\* is answered from the cache with no call to the remote API, and one whose
\* response was stored more than one day ago calls the remote API again.
C1_ExpiresAfterOneDay ==
    (src # "none" /\ age # NoTime) =>
        /\ (age < Day => src = "cache")
        /\ (age > Day => src = "remote")

\* C2 (as stated): when the download of a cell fails (network error or missing
\* data), the cell ends as an error shown in its output, exactly one call went
\* to the remote API (no second attempt), nothing is stored or run to recover,
\* and every name the cell would have assigned keeps the binding it had before.
C2_FailedDownloadEndsCell ==
    [][(ec' = ec + 1 /\ out' \in DownloadErrors) =>
          /\ status' = "error"
          /\ calls' = 1
          /\ pc' = cur'
          /\ cache' = cache
          /\ \A x \in WritesOf(cur') : ns'[x] = ns[x]]_vars

\* C8 (as stated): a code cell reads only tables that the same cell constructed.
C8_TablesLiveInOneCell ==
    \A p \in used : p[1] \in Tables => p[2] = cur

\* C8 (amended): a table bound by the cell that constructs it stays bound in the
\* kernel namespace through every later cell, until the kernel is restarted.
C8_TablesPersist ==
    [][runs' = runs =>
          \A t \in Tables : ns[t].cell # 0 => ns'[t].cell # 0]_vars

\* C8 witness: a cell has read a table that an earlier cell constructed.
C8_Witness ==
    /\ status = "ok" /\ nb = "lewinson" /\ cur = 11
    /\ <<"spy", 5>> \in used /\ ns["spy_m"].cell = 11

\* C9: in a run in document order every name a cell reads was assigned by that
\* cell or by a cell that ran before it (no cell ends in a NameError), and the
\* cell executed last is the one before the next cell or the one that raised.
C9_NamesAssignedBefore ==
    /\ out # "NameError"
    /\ \A p \in used : 1 <= p[2] /\ p[2] <= cur
    /\ pc \in {cur, cur + 1}
    /\ (pc = cur <=> status = "error")

\* C9 witness: the last cell of a notebook has run, reading names of earlier cells.
C9_Witness ==
    /\ nb = "lewinson" /\ cur = Len(CellsLewinson) /\ status = "ok" /\ reruns = 0
    /\ <<"spy_m", 15>> \in used

====
